---- MODULE Spec2Model ----
(***************************************************************************)
(* meesign-server: the task/protocol coordination engine.                  *)
(*                                                                         *)
(*   - src/protocols/musig2.rs : the Musig2Group / Musig2Sign round        *)
(*     machines (specification SpecProto);                                 *)
(*   - src/main.rs + src/rpc.rs : the State with its GroupTask / SignTask  *)
(*     and the request handlers that lock it (specification SpecMain);     *)
(*   - src/state.rs : the State with devices, groups, tasks and            *)
(*     notification subscribers (specifications Spec and SpecConc).        *)
(***************************************************************************)
EXTENDS Integers, Sequences, FiniteSets, TLC

VARIABLES
    \* src/protocols/musig2.rs
    round,        \* round[p] : the round field of the instance of protocol p
    relays,       \* relays[p] : how often the instance called communicator.relay()
    pcall,        \* the last Protocol call: which, on what, from which round, fault
    \* src/main.rs
    m_devices,    \* State.devices (main.rs): the registered identifiers
    m_groups,     \* State.groups (main.rs): identifier -> Group
    m_tasks,      \* State.tasks (main.rs): Vec of tasks, index from 1
    m_ret,        \* what the last request of main.rs / rpc.rs gave its caller
    \* src/state.rs
    devices,      \* State.devices: identifier -> Device
    groups,       \* State.groups: identifier -> Group
    tasks,        \* State.tasks: task id -> task
    subscribers,  \* State.subscribers: identifier -> channel
    last,         \* the last State operation: which, its result, the failed pushes
    dropped,      \* subscribers removed after a failed push, not subscribed again
    inserts,      \* inserts[t] : how often update_task inserted a Group for task t
    \* src/rpc.rs handlers over the State lock
    lock,         \* the holder of the Mutex<State>, or NoHolder
    hpc,          \* hpc[h] : where handler h stands
    hreq,         \* hreq[h] : the request handler h serves
    hprev,        \* hprev[h] : previous_status as handler h read it
    hres,         \* hres[h] : update_result as handler h got it
    hsaw,         \* hsaw[h] : handler h saw the non-Finished -> Finished change
    serial,       \* the State and results of the same calls run whole, in lock order
    \* src/main.rs: one SignTask as an object of its own
    the_task,     \* the SignTask
    submitted,    \* the devices whose update the SignTask took
    the_call,     \* the last call on the SignTask: which, by whom, its result
    \* the Task that drives a Protocol instance through a Communicator
    comm,         \* comm[p] : the Communicator's active devices and posted messages
    contributed,  \* contributed[p][n] : the devices whose round-n message was taken
    \* src/rpc.rs get_info
    info          \* the get_info handler: where it stands, what it has read

protoVars == <<round, relays, pcall>>
mainVars  == <<m_devices, m_groups, m_tasks, m_ret>>
stateVars == <<devices, groups, tasks, subscribers, last, dropped, inserts>>
concVars  == <<lock, hpc, hreq, hprev, hres, hsaw, serial>>
workVars  == <<the_task, submitted, the_call>>
commVars  == <<comm, contributed>>
infoVars  == <<info>>
moreVars  == <<workVars, commVars, infoVars>>
vars      == <<protoVars, mainVars, stateVars, concVars, moreVars>>

----------------------------------------------------------------------------
(* Bounds of the model *)

MaxRelays   == 3   \* relay() calls followed per Protocol instance
MaxTasks    == 2   \* tasks created in one run
MaxListLen  == 2   \* length of a request's device list
MaxAckTasks == 2   \* tasks created in one run of SpecAck
MaxNotifyTasks == 2   \* tasks created in one run of SpecNotify
MaxQueued   == 1   \* pushes a subscriber's channel holds before it is full
NHandlers   == 2   \* request handlers running update_task at once

----------------------------------------------------------------------------
(* Values *)

\* Device identifiers are byte strings; <<1>> \o <<2>> = <<1, 2>>.
Ids == {<<1>>, <<2>>, <<1, 2>>}

\* A character is known by its class: what the name checks look at.
Alpha == "alpha"
Punct == "punct"
Ctrl  == "ctrl"

RECURSIVE Repeat(_, _)
Repeat(c, n) == IF n = 0 THEN <<>> ELSE <<c>> \o Repeat(c, n - 1)

MaxNameChars == 64

Names == {<<Alpha>>, <<Alpha, Alpha>>, <<Alpha, Punct>>, <<Ctrl>>,
          Repeat(Alpha, MaxNameChars + 1)}

NoHolder == 0

None == {}
Some(x) == {x}
Unwrap(o) == CHOOSE x \in o : TRUE

Range(f) == {f[i] : i \in DOMAIN f}

\* The orders in which a map with key set S can be iterated.
RECURSIVE Orders(_)
Orders(S) ==
    IF S = {} THEN {<<>>}
    ELSE UNION {{<<x>> \o o : o \in Orders(S \ {x})} : x \in S}

RECURSIVE Concat(_)
Concat(seq) == IF seq = <<>> THEN <<>> ELSE Head(seq) \o Concat(Tail(seq))

DeviceLists == UNION {[1..n -> Ids] : n \in 1..MaxListLen}

----------------------------------------------------------------------------
(* src/protocols/musig2.rs *)

Protocols == {"Musig2Group", "Musig2Sign"}

last_round(p) == IF p = "Musig2Group" THEN 2 ELSE 3

\* Each call gives the round it leaves, whether it called send_all, whether
\* it called relay, whether it faulted.
initialize(p, r) ==
    [round |-> 1, broadcast |-> TRUE, relay |-> FALSE, fault |-> FALSE]

advance(p, r) ==
    IF r \in 0..(last_round(p) - 1)
    THEN [round |-> r + 1, broadcast |-> FALSE, relay |-> TRUE, fault |-> FALSE]
    ELSE [round |-> r, broadcast |-> FALSE, relay |-> FALSE, fault |-> TRUE]

finalize(p, r) ==
    IF last_round(p) = r
    THEN [round |-> r + 1, broadcast |-> FALSE, relay |-> FALSE, fault |-> FALSE]
    ELSE [round |-> r, broadcast |-> FALSE, relay |-> FALSE, fault |-> TRUE]

ProtocolCall(p, op, out) ==
    /\ round' = [round EXCEPT ![p] = out.round]
    /\ relays' = [relays EXCEPT ![p] = @ + (IF out.relay THEN 1 ELSE 0)]
    /\ pcall' = [n |-> 1 - pcall.n, proto |-> p, op |-> op,
                 before |-> round[p], broadcast |-> out.broadcast,
                 fault |-> out.fault]
    /\ UNCHANGED <<mainVars, stateVars, concVars, moreVars>>

Initialize(p) == ProtocolCall(p, "initialize", initialize(p, round[p]))

Advance(p) ==
    /\ relays[p] < MaxRelays
    /\ ProtocolCall(p, "advance", advance(p, round[p]))

Finalize(p) == ProtocolCall(p, "finalize", finalize(p, round[p]))

----------------------------------------------------------------------------
(* src/main.rs: the tasks *)

\* A payload is known by its length: what the size check looks at.
MaxPdfBytes == 8 * 1024 * 1024
Payloads == {[len |-> 5], [len |-> MaxPdfBytes + 1]}
NoData == [len |-> 0]

Panic == [tag |-> "Panic"]
Unit == [tag |-> "Unit"]
Bool(b) == [tag |-> "Bool", value |-> b]
Err(msg) == [tag |-> "Err", msg |-> msg]
Waiting(w) == [tag |-> "Waiting", waiting |-> w]
Signed(r) == [tag |-> "Signed", result |-> r]
GroupEstablished(g) == [tag |-> "GroupEstablished", group |-> g]

Group_new(identifier, devs, threshold) ==
    [identifier |-> identifier, devices |-> devs, threshold |-> threshold]

\* HashMap<Vec<u8>, bool> with every listed device set to false.
NewSubtasks(list) == [d \in Range(list) |-> FALSE]

SignTask_new(devs, data) ==
    [kind |-> "Sign", subtasks |-> [d \in devs |-> FALSE], data |-> data,
     threshold |-> 0, result |-> None]

GroupTask_new(list, threshold) ==
    [kind |-> "Group", subtasks |-> NewSubtasks(list), data |-> NoData,
     threshold |-> threshold, result |-> None]

\* The keys whose value is false.
WaitingOf(task) == {d \in DOMAIN task.subtasks : ~task.subtasks[d]}

SignTask_get_status(task) ==
    IF WaitingOf(task) = {}
    THEN Waiting(WaitingOf(task))
    ELSE Signed(<<>>)

GroupTask_get_status(task) ==
    IF WaitingOf(task) = {}
    THEN Waiting(WaitingOf(task))
    ELSE IF task.result = None THEN Panic
         ELSE GroupEstablished(Unwrap(task.result))

main_get_status(task) ==
    IF task.kind = "Sign" THEN SignTask_get_status(task)
    ELSE GroupTask_get_status(task)

\* order: the order in which self.subtasks.keys() yields the devices.
try_advance(task, order) ==
    IF task.result = None /\ \A d \in DOMAIN task.subtasks : task.subtasks[d]
    THEN [task EXCEPT !.result =
            Some(Group_new(Concat(order), DOMAIN task.subtasks, task.threshold))]
    ELSE task

SignTask_update(task, device_id) ==
    IF device_id \in DOMAIN task.subtasks
    THEN LET t1 == [task EXCEPT !.subtasks[device_id] = TRUE]
         IN  [task |-> t1, ret |-> SignTask_get_status(t1)]
    ELSE [task |-> task, ret |-> Err("Incompatible device ID")]

GroupTask_update(task, device_id, order) ==
    IF device_id \in DOMAIN task.subtasks
    THEN LET t1 == [task EXCEPT !.subtasks[device_id] = TRUE]
             t2 == try_advance(t1, order)
         IN  [task |-> t2, ret |-> GroupTask_get_status(t2)]
    ELSE [task |-> task, ret |-> Err("Incompatible device ID")]

main_update(task, device_id, order) ==
    IF task.kind = "Sign" THEN SignTask_update(task, device_id)
    ELSE GroupTask_update(task, device_id, order)

\* get_work that hands the payload to whoever asks.
get_work_unconditional(task, device_id) ==
    Some(IF task.kind = "Sign" THEN task.data ELSE [len |-> 4])

main_get_work(task, device_id) ==
    IF ~(IF device_id \in DOMAIN task.subtasks THEN task.subtasks[device_id]
         ELSE FALSE)
    THEN None
    ELSE Some(IF task.kind = "Sign" THEN task.data ELSE [len |-> 4])

----------------------------------------------------------------------------
(* src/main.rs: State.  s = [devices, groups, tasks] *)

MainState == [devices |-> m_devices, groups |-> m_groups, tasks |-> m_tasks]

main_add_device(s, device) ==
    [s EXCEPT !.devices = [d \in DOMAIN s.devices \cup {device} |-> <<>>]]

main_add_task(s, task) == [s EXCEPT !.tasks = Append(s.tasks, task)]

main_add_group_task(s, list, threshold) ==
    IF threshold > Len(list) THEN [s |-> s, ret |-> Bool(FALSE)]
    ELSE IF \E i \in 1..Len(list) : list[i] \notin DOMAIN s.devices
    THEN [s |-> s, ret |-> Bool(FALSE)]
    ELSE [s |-> main_add_task(s, GroupTask_new(list, threshold)),
          ret |-> Bool(TRUE)]

main_add_sign_task(s, group, data) ==
    IF group \notin DOMAIN s.groups THEN [s |-> s, ret |-> Panic]
    ELSE [s |-> main_add_task(s, SignTask_new(s.groups[group].devices, data)),
          ret |-> Unit]

\* HashSet<Group>::insert keeps the element already there.
GroupSet_insert(gs, g) ==
    IF g.identifier \in DOMAIN gs THEN gs
    ELSE [i \in DOMAIN gs \cup {g.identifier} |->
            IF i = g.identifier THEN g ELSE gs[i]]

\* self.tasks.get(task).unwrap().get_status()
main_get_task(s, task) ==
    IF task \notin DOMAIN s.tasks THEN Panic
    ELSE main_get_status(s.tasks[task])

\* self.tasks.get(task).unwrap().get_work(device)
main_state_get_work(s, task, device) ==
    IF task \notin DOMAIN s.tasks THEN [fault |-> TRUE, work |-> None]
    ELSE [fault |-> FALSE, work |-> main_get_work(s.tasks[task], device)]

main_update_task(s, task, device, order) ==
    IF task \notin DOMAIN s.tasks THEN [s |-> s, ret |-> Panic]
    ELSE LET u  == main_update(s.tasks[task], device, order)
             s1 == [s EXCEPT !.tasks[task] = u.task]
         IN  IF u.ret.tag \in {"Err", "Panic"} THEN [s |-> s1, ret |-> Panic]
             ELSE IF u.ret.tag = "GroupEstablished"
             THEN [s |-> [s1 EXCEPT !.groups = GroupSet_insert(@, u.ret.group)],
                   ret |-> u.ret]
             ELSE [s |-> s1, ret |-> u.ret]

----------------------------------------------------------------------------
(* src/state.rs: the Task behind State (tasks::group, tasks::sign_pdf) *)

MaxGroupNameChars == 64
MaxPdfNameBytes == 256

Signature == [len |-> 64]

\* name.chars().count() > 64 || any char is ASCII punctuation or control
InvalidName(name) ==
    \/ Len(name) > MaxGroupNameChars
    \/ \E i \in 1..Len(name) : name[i] \in {Punct, Ctrl}

\* data.len() > 8 MiB || name.len() > 256 || any char is control
InvalidPdf(name, data) ==
    \/ data.len > MaxPdfBytes
    \/ Len(name) > MaxPdfNameBytes
    \/ \E i \in 1..Len(name) : name[i] = Ctrl

Device_new(identifier, name) == [identifier |-> identifier, name |-> name]

\* A task of state.rs: the task of main.rs with a name, the votes of decide
\* and the devices that acknowledged.
Task_new(base, name) ==
    [kind |-> base.kind, subtasks |-> base.subtasks, data |-> base.data,
     threshold |-> base.threshold, result |-> base.result, name |-> name,
     decisions |-> [d \in DOMAIN base.subtasks |-> "none"],
     acknowledged |-> {}]

has_device(task, device) == device \in DOMAIN task.subtasks

get_devices(task) == DOMAIN task.subtasks

device_acknowledged(task, device) == device \in task.acknowledged

\* TaskStatus: Failed once a participant rejected, Finished once the result
\* is there, Waiting otherwise.
get_status(task) ==
    IF \E d \in DOMAIN task.decisions : task.decisions[d] = "reject"
    THEN "Failed"
    ELSE IF task.result # None THEN "Finished"
    ELSE "Waiting"

\* What a device sees of the task: its status and the devices it waits for.
projection(task) == <<get_status(task), WaitingOf(task)>>

\* TaskResult: GroupEstablished(group) or Signed(signature).
get_result(task) ==
    IF task.result = None THEN None
    ELSE IF task.kind = "Group"
    THEN Some(GroupEstablished(Unwrap(task.result)))
    ELSE Some(Signed(Unwrap(task.result)))

sign_try_advance(task) ==
    IF task.result = None /\ \A d \in DOMAIN task.subtasks : task.subtasks[d]
    THEN [task EXCEPT !.result = Some(Signature)]
    ELSE task

Ok(changed) == [tag |-> "Ok", value |-> changed]

\* update: Err for a device that is no participant, else the contribution is
\* taken, the protocol advanced when all are in, and Ok(changed) returned.
update(task, device, order) ==
    IF ~has_device(task, device)
    THEN [task |-> task, ret |-> Err("UnknownDevice")]
    ELSE LET t1 == [task EXCEPT !.subtasks[device] = TRUE]
             t2 == IF task.kind = "Group" THEN try_advance(t1, order)
                   ELSE sign_try_advance(t1)
         IN  [task |-> t2, ret |-> Ok(projection(t2) # projection(task))]

\* decide: the vote of a participant that has not voted on a Waiting task.
decide(task, device, decision) ==
    IF /\ has_device(task, device)
       /\ task.decisions[device] = "none"
       /\ get_status(task) = "Waiting"
    THEN [task |-> [task EXCEPT !.decisions[device] =
                      IF decision THEN "accept" ELSE "reject"],
          ret |-> TRUE]
    ELSE [task |-> task, ret |-> FALSE]

acknowledge(task, device) ==
    IF has_device(task, device)
    THEN [task EXCEPT !.acknowledged = @ \cup {device}]
    ELSE task

\* restart: refused once a result is committed, else contributions and votes
\* are cleared.
restart(task) ==
    IF task.result # None
    THEN [task |-> task, ret |-> Err("Finished")]
    ELSE [task |-> [task EXCEPT
                      !.subtasks = [d \in DOMAIN task.subtasks |-> FALSE],
                      !.decisions = [d \in DOMAIN task.subtasks |-> "none"]],
          ret |-> Ok(TRUE)]

\* GroupTask::new asserts threshold <= |devices|.
state_GroupTask_new(name, list, threshold) ==
    IF threshold > Len(list) THEN Panic
    ELSE Task_new(GroupTask_new(list, threshold), name)

SignPDFTask_new(group, name, data) ==
    Task_new(SignTask_new(group.devices, data), name)

----------------------------------------------------------------------------
(* src/state.rs: State.  s = [devices, groups, tasks, subscribers] *)

StateNow == [devices |-> devices, groups |-> groups, tasks |-> tasks,
             subscribers |-> subscribers]

Map_insert(m, k, v) == [x \in DOMAIN m \cup {k} |-> IF x = k THEN v ELSE m[x]]
Map_remove(m, k) == [x \in DOMAIN m \ {k} |-> m[x]]

\* A subscriber's channel: the pushes queued in it, and whether the
\* receiving end is still there.
Channel_new == [queued |-> 0, open |-> TRUE]

\* Sender::try_send: an error when the channel is closed or full.
try_send_fails(tx) == ~tx.open \/ tx.queued >= MaxQueued

\* What an operation hands back: the State it leaves, its return value, the
\* devices it tried to push to, those whose push failed, the task it
\* inserted a Group for (0: none), and whether it panicked.
Out(s, ret) == [s |-> s, ret |-> ret, attempted |-> {}, failed |-> {},
                inserted |-> 0, fault |-> FALSE]

\* The operation panicked (an unwrap of None, a failed assert).
Faulted(s) == [Out(s, Panic) EXCEPT !.fault = TRUE]

remove_subscriber(s, device_id) ==
    [s EXCEPT !.subscribers = Map_remove(@, device_id)]

\* send_updates that leaves a subscriber whose push failed in the map.
send_updates_keeps_failed(s, task_id) ==
    LET task == s.tasks[task_id]
        attempted == get_devices(task) \cap DOMAIN s.subscribers
        remove == {d \in attempted : try_send_fails(s.subscribers[d])}
        sent == [d \in DOMAIN s.subscribers |->
                   IF d \in attempted \ remove
                   THEN [s.subscribers[d] EXCEPT !.queued = @ + 1]
                   ELSE s.subscribers[d]]
    IN  [s |-> [s EXCEPT !.subscribers = sent],
         attempted |-> attempted, failed |-> remove]

\* send_updates that pushes to every subscriber.
send_updates_to_all(s, task_id) ==
    LET attempted == DOMAIN s.subscribers
        remove == {d \in attempted : try_send_fails(s.subscribers[d])}
        sent == [d \in DOMAIN s.subscribers |->
                   IF d \in attempted \ remove
                   THEN [s.subscribers[d] EXCEPT !.queued = @ + 1]
                   ELSE s.subscribers[d]]
    IN  [s |-> [s EXCEPT !.subscribers =
                  [d \in DOMAIN sent \ remove |-> sent[d]]],
         attempted |-> attempted, failed |-> remove]

send_updates(s, task_id) ==
    LET task == s.tasks[task_id]
        attempted == get_devices(task) \cap DOMAIN s.subscribers
        remove == {d \in attempted : try_send_fails(s.subscribers[d])}
        sent == [d \in DOMAIN s.subscribers |->
                   IF d \in attempted \ remove
                   THEN [s.subscribers[d] EXCEPT !.queued = @ + 1]
                   ELSE s.subscribers[d]]
    IN  [s |-> [s EXCEPT !.subscribers =
                  [d \in DOMAIN sent \ remove |-> sent[d]]],
         attempted |-> attempted, failed |-> remove]

\* An operation's outcome followed by send_updates(task_id).
WithUpdates(s, ret, task_id, inserted) ==
    LET u == send_updates(s, task_id)
    IN  [s |-> u.s, ret |-> ret, attempted |-> u.attempted,
         failed |-> u.failed, inserted |-> inserted, fault |-> FALSE]

add_device(s, identifier, name) ==
    IF InvalidName(name) THEN Out(s, Bool(FALSE))
    ELSE IF identifier \in DOMAIN s.devices THEN Out(s, Bool(FALSE))
    ELSE Out([s EXCEPT !.devices =
                Map_insert(@, identifier, Device_new(identifier, name))],
             Bool(TRUE))

\* Uuid::new_v4(): an identifier no task has yet.
new_uuid(s) == Len(s.tasks) + 1

add_task(s, task) == [s EXCEPT !.tasks = Append(@, task)]

add_group_task(s, name, list, threshold) ==
    IF InvalidName(name) THEN Out(s, None)
    ELSE IF \E i \in 1..Len(list) : list[i] \notin DOMAIN s.devices
    THEN Out(s, None)
    ELSE LET task == state_GroupTask_new(name, list, threshold)
         IN  IF task = Panic THEN Faulted(s)
             ELSE WithUpdates(add_task(s, task), Some(new_uuid(s)),
                              new_uuid(s), 0)

add_sign_task(s, group, name, data) ==
    IF InvalidPdf(name, data) THEN Out(s, None)
    ELSE IF group \notin DOMAIN s.groups THEN Out(s, None)
    ELSE WithUpdates(add_task(s, SignPDFTask_new(s.groups[group], name, data)),
                     Some(new_uuid(s)), new_uuid(s), 0)

\* get_device_tasks that does not look at the acknowledgement.
get_device_tasks_unacknowledged(s, device) ==
    {t \in DOMAIN s.tasks : has_device(s.tasks[t], device)}

get_device_tasks(s, device) ==
    {t \in DOMAIN s.tasks :
        /\ has_device(s.tasks[t], device)
        /\ \/ get_status(s.tasks[t]) # "Finished"
           \/ /\ get_status(s.tasks[t]) = "Finished"
              /\ ~device_acknowledged(s.tasks[t], device)}

get_device_groups(s, device) ==
    {g \in Range(s.groups) : device \in g.devices}

\* update_task that does not compare with previous_status.
update_task_unguarded(s, task_id, device, order) ==
    IF task_id \notin DOMAIN s.tasks THEN Faulted(s)
    ELSE LET u  == update(s.tasks[task_id], device, order)
             s1 == [s EXCEPT !.tasks[task_id] = u.task]
             established ==
                 /\ get_status(u.task) = "Finished"
                 /\ Unwrap(get_result(u.task)).tag = "GroupEstablished"
             s2 == IF established
                   THEN [s1 EXCEPT !.groups =
                           Map_insert(@, Unwrap(u.task.result).identifier,
                                      Unwrap(u.task.result))]
                   ELSE s1
             ins == IF established THEN task_id ELSE 0
         IN  IF u.ret = Ok(TRUE) THEN WithUpdates(s2, u.ret, task_id, ins)
             ELSE [Out(s2, u.ret) EXCEPT !.inserted = ins]

update_task(s, task_id, device, order) ==
    IF task_id \notin DOMAIN s.tasks THEN Faulted(s)
    ELSE LET previous_status == get_status(s.tasks[task_id])
             u  == update(s.tasks[task_id], device, order)
             s1 == [s EXCEPT !.tasks[task_id] = u.task]
             established ==
                 /\ previous_status # "Finished"
                 /\ get_status(u.task) = "Finished"
                 /\ Unwrap(get_result(u.task)).tag = "GroupEstablished"
             s2 == IF established
                   THEN [s1 EXCEPT !.groups =
                           Map_insert(@, Unwrap(u.task.result).identifier,
                                      Unwrap(u.task.result))]
                   ELSE s1
             ins == IF established THEN task_id ELSE 0
         IN  IF u.ret = Ok(TRUE) THEN WithUpdates(s2, u.ret, task_id, ins)
             ELSE [Out(s2, u.ret) EXCEPT !.inserted = ins]

decide_task(s, task_id, device, decision) ==
    IF task_id \notin DOMAIN s.tasks THEN Faulted(s)
    ELSE LET c  == decide(s.tasks[task_id], device, decision)
             s1 == [s EXCEPT !.tasks[task_id] = c.task]
         IN  IF c.ret THEN WithUpdates(s1, Bool(TRUE), task_id, 0)
             ELSE Out(s1, Bool(FALSE))

\* acknowledge_task that takes the acknowledgement back when it is there.
acknowledge_task_toggling(s, task, device) ==
    IF task \notin DOMAIN s.tasks THEN Faulted(s)
    ELSE Out([s EXCEPT !.tasks[task] =
                IF device \in @.acknowledged
                THEN [@ EXCEPT !.acknowledged = @ \ {device}]
                ELSE acknowledge(@, device)], Unit)

acknowledge_task(s, task, device) ==
    IF task \notin DOMAIN s.tasks THEN Faulted(s)
    ELSE Out([s EXCEPT !.tasks[task] = acknowledge(@, device)], Unit)

restart_task(s, task_id) ==
    IF task_id \notin DOMAIN s.tasks THEN Out(s, Bool(FALSE))
    ELSE LET r == restart(s.tasks[task_id])
         IN  IF r.ret.tag = "Ok"
             THEN Out([s EXCEPT !.tasks[task_id] = r.task], Bool(r.ret.value))
             ELSE Out(s, Bool(FALSE))

add_subscriber(s, device_id) ==
    Out([s EXCEPT !.subscribers = Map_insert(@, device_id, Channel_new)], Unit)

----------------------------------------------------------------------------
(* src/rpc.rs over src/main.rs: one action per request handler *)

Thresholds == 0..(MaxListLen + 1)

Success(msg) == [variant |-> "Success", msg |-> msg]
Failure(msg) == [variant |-> "Failure", msg |-> msg]
\* The handler panicked: the request ends without a Resp.
Fault == [variant |-> "Fault", msg |-> ""]

MainApply(op, args, out, resp) ==
    /\ m_devices' = out.s.devices
    /\ m_groups' = out.s.groups
    /\ m_tasks' = out.s.tasks
    /\ m_ret' = [n |-> 1 - m_ret.n, op |-> op, args |-> args,
                 ret |-> out.ret, resp |-> resp]
    /\ UNCHANGED <<protoVars, stateVars, concVars, moreVars>>

rpc_register(device_id) ==
    LET out == [s |-> main_add_device(MainState, device_id), ret |-> Unit]
    IN  MainApply("register", <<device_id>>, out, Success("OK"))

rpc_sign(group_id, data) ==
    LET out == main_add_sign_task(MainState, group_id, data)
    IN  /\ Len(m_tasks) < MaxTasks
        /\ MainApply("sign", <<group_id, data>>, out,
                     IF out.ret = Panic THEN Fault ELSE Success("OK"))

\* threshold: None, or Some(n) as the request gives it.
rpc_group(device_ids, threshold) ==
    LET thr == IF threshold = None THEN Len(device_ids) ELSE Unwrap(threshold)
        out == main_add_group_task(MainState, device_ids, thr)
    IN  /\ Len(m_tasks) < MaxTasks
        /\ MainApply("group", <<device_ids, threshold>>, out,
                     IF out.ret.value THEN Success("OK") ELSE Failure("NOK"))

rpc_update_task(task, device, order) ==
    LET out == main_update_task(MainState, task, device, order)
    IN  MainApply("update_task", <<task, device>>, out,
                  IF out.ret = Panic THEN Fault ELSE Success("OK"))

\* The iteration orders of the task's subtasks (one, <<>>, if there is no task).
OrdersOf(ts, t) == IF t \in DOMAIN ts THEN Orders(DOMAIN ts[t].subtasks) ELSE {<<>>}

GroupIds == {Concat(o) : o \in UNION {Orders(S) : S \in SUBSET Ids \ {{}}}}

NextMain ==
    \/ \E d \in Ids : rpc_register(d)
    \/ \E g \in GroupIds, data \in Payloads : rpc_sign(g, data)
    \/ \E l \in DeviceLists, thr \in {None} \cup {Some(n) : n \in Thresholds} :
           rpc_group(l, thr)
    \/ \E t \in 1..MaxTasks, d \in Ids : \E o \in OrdersOf(m_tasks, t) :
           rpc_update_task(t, d, o)

----------------------------------------------------------------------------
(* src/state.rs: one action per operation of State *)

GroupNames == {<<Alpha>>, <<Alpha, Punct>>}
PdfNames == {<<Alpha>>, <<Ctrl>>}

StApply(op, args, out) ==
    /\ devices' = out.s.devices
    /\ groups' = out.s.groups
    /\ tasks' = out.s.tasks
    /\ subscribers' = out.s.subscribers
    /\ last' = [op |-> op, ret |-> out.ret, failed |-> out.failed]
    /\ dropped' = (dropped \cup out.failed) \
                     (IF op = "add_subscriber" THEN {args[1]} ELSE {})
    /\ inserts' = [t \in DOMAIN out.s.tasks |->
                     (IF t \in DOMAIN inserts THEN inserts[t] ELSE 0)
                     + (IF out.inserted = t THEN 1 ELSE 0)]
    /\ UNCHANGED <<protoVars, mainVars, concVars, moreVars>>

AddDevice(identifier, name) ==
    StApply("add_device", <<identifier, name>>,
            add_device(StateNow, identifier, name))

AddGroupTask(name, list, threshold) ==
    /\ StApply("add_group_task", <<name, list, threshold>>,
               add_group_task(StateNow, name, list, threshold))

AddSignTask(group, name, data) ==
    /\ StApply("add_sign_task", <<group, name, data>>,
               add_sign_task(StateNow, group, name, data))

UpdateTask(task_id, device, order) ==
    StApply("update_task", <<task_id, device>>,
            update_task(StateNow, task_id, device, order))

DecideTask(task_id, device, decision) ==
    StApply("decide_task", <<task_id, device, decision>>,
            decide_task(StateNow, task_id, device, decision))

AcknowledgeTask(task, device) ==
    StApply("acknowledge_task", <<task, device>>,
            acknowledge_task(StateNow, task, device))

RestartTask(task_id) ==
    StApply("restart_task", <<task_id>>, restart_task(StateNow, task_id))

AddSubscriber(device_id) ==
    StApply("add_subscriber", <<device_id>>,
            add_subscriber(StateNow, device_id))

\* The device takes one push out of its channel.
Receive(device_id) ==
    /\ device_id \in DOMAIN subscribers
    /\ subscribers[device_id].queued > 0
    /\ subscribers' = [subscribers EXCEPT ![device_id].queued = @ - 1]
    /\ UNCHANGED <<devices, groups, tasks, last, dropped, inserts,
                   protoVars, mainVars, concVars, moreVars>>

\* The device drops the receiving end of its channel.
Disconnect(device_id) ==
    /\ device_id \in DOMAIN subscribers
    /\ subscribers[device_id].open
    /\ subscribers' = [subscribers EXCEPT ![device_id].open = FALSE]
    /\ UNCHANGED <<devices, groups, tasks, last, dropped, inserts,
                   protoVars, mainVars, concVars, moreVars>>

\* Task lifecycle: registration, task creation, updates, restart.
Next ==
    \/ \E d \in Ids, n \in Names : AddDevice(d, n)
    \/ /\ Len(tasks) < MaxTasks
       /\ \E n \in GroupNames, l \in DeviceLists, thr \in Thresholds :
             AddGroupTask(n, l, thr)
    \/ /\ Len(tasks) < MaxTasks
       /\ \E g \in GroupIds, n \in PdfNames, data \in Payloads :
             AddSignTask(g, n, data)
    \/ \E t \in 1..MaxTasks, d \in Ids : \E o \in OrdersOf(tasks, t) :
           UpdateTask(t, d, o)
    \/ \E t \in 1..MaxTasks : RestartTask(t)

PairIds == {<<1>>, <<2>>}
PairLists == UNION {[1..n -> PairIds] : n \in 1..MaxListLen}

\* Votes and acknowledgements on tasks of well-formed requests over two
\* devices.
NextAck ==
    \/ \E d \in PairIds : AddDevice(d, <<Alpha>>)
    \/ /\ Len(tasks) < MaxAckTasks
       /\ \E l \in PairLists : AddGroupTask(<<Alpha>>, l, Len(l))
    \/ /\ Len(tasks) < MaxAckTasks
       /\ \E g \in GroupIds : AddSignTask(g, <<Alpha>>, [len |-> 5])
    \/ \E t \in 1..MaxAckTasks, d \in PairIds : \E o \in OrdersOf(tasks, t) :
           UpdateTask(t, d, o)
    \/ \E t \in 1..MaxAckTasks, d \in PairIds, b \in BOOLEAN : DecideTask(t, d, b)
    \/ \E t \in 1..MaxAckTasks, d \in PairIds : AcknowledgeTask(t, d)
    \/ \E t \in 1..MaxAckTasks : RestartTask(t)

\* Push notifications: subscribers, their channels, and the operations that
\* call send_updates, over two devices; the votes are rejections.
NextNotify ==
    \/ \E d \in PairIds : AddDevice(d, <<Alpha>>)
    \/ \E d \in PairIds : AddSubscriber(d)
    \/ \E d \in PairIds : Receive(d)
    \/ \E d \in PairIds : Disconnect(d)
    \/ /\ Len(tasks) < MaxNotifyTasks
       /\ \E l \in PairLists : AddGroupTask(<<Alpha>>, l, Len(l))
    \/ /\ Len(tasks) < MaxNotifyTasks
       /\ \E g \in GroupIds : AddSignTask(g, <<Alpha>>, [len |-> 5])
    \/ \E t \in 1..MaxNotifyTasks, d \in PairIds : \E o \in OrdersOf(tasks, t) :
           UpdateTask(t, d, o)
    \/ \E t \in 1..MaxNotifyTasks, d \in PairIds : DecideTask(t, d, FALSE)

----------------------------------------------------------------------------
(* src/rpc.rs: handlers of update_task over the Mutex<State> *)

Handlers == 1..NHandlers

NoRequest == [task |-> 0, device |-> <<>>, order |-> <<>>]

\* A lock that lets every handler in.
Mutex_always_available(holder) == TRUE

\* lock().await goes through only while nobody holds the Mutex.
Mutex_available(holder) == holder = NoHolder

ConcStep(h, pc) ==
    /\ hpc' = [hpc EXCEPT ![h] = pc]
    /\ UNCHANGED <<protoVars, mainVars, last, dropped, moreVars>>

\* A request arrives at handler h.
Request(h, task, device, order) ==
    /\ hpc[h] = "idle"
    /\ hreq' = [hreq EXCEPT ![h] =
                  [task |-> task, device |-> device, order |-> order]]
    /\ ConcStep(h, "lock")
    /\ UNCHANGED <<lock, hprev, hres, hsaw, serial, devices, groups, tasks,
                   subscribers, inserts>>

\* self.state.lock().await
Acquire(h) ==
    /\ hpc[h] = "lock"
    /\ Mutex_available(lock)
    /\ lock' = h
    /\ LET whole == update_task(serial.s, hreq[h].task, hreq[h].device,
                                hreq[h].order)
       IN  serial' = [s |-> whole.s, ret |-> [serial.ret EXCEPT ![h] = whole.ret]]
    /\ ConcStep(h, "status")
    /\ UNCHANGED <<hreq, hprev, hres, hsaw, devices, groups, tasks,
                   subscribers, inserts>>

\* let task = self.tasks.get_mut(task_id).unwrap();
\* let previous_status = task.get_status();
ReadStatus(h) ==
    /\ hpc[h] = "status"
    /\ IF hreq[h].task \in DOMAIN tasks
       THEN /\ hprev' = [hprev EXCEPT ![h] = get_status(tasks[hreq[h].task])]
            /\ hres' = hres
            /\ ConcStep(h, "update")
       ELSE /\ hprev' = hprev
            /\ hres' = [hres EXCEPT ![h] = Panic]
            /\ ConcStep(h, "unlock")
    /\ UNCHANGED <<lock, hreq, hsaw, serial, devices, groups, tasks,
                   subscribers, inserts>>

\* let update_result = task.update(device, data);
TaskUpdate(h) ==
    /\ hpc[h] = "update"
    /\ LET u == update(tasks[hreq[h].task], hreq[h].device, hreq[h].order)
       IN  /\ tasks' = [tasks EXCEPT ![hreq[h].task] = u.task]
           /\ hres' = [hres EXCEPT ![h] = u.ret]
    /\ ConcStep(h, "insert")
    /\ UNCHANGED <<lock, hreq, hprev, hsaw, serial, devices, groups,
                   subscribers, inserts>>

\* if previous_status != Finished && task.get_status() == Finished { insert }
InsertGroup(h) ==
    /\ hpc[h] = "insert"
    /\ LET t == hreq[h].task
           flips == hprev[h] # "Finished" /\ get_status(tasks[t]) = "Finished"
           est == flips /\ Unwrap(get_result(tasks[t])).tag = "GroupEstablished"
       IN  /\ hsaw' = [hsaw EXCEPT ![h] = flips]
           /\ groups' = IF est
                        THEN Map_insert(groups,
                                        Unwrap(tasks[t].result).identifier,
                                        Unwrap(tasks[t].result))
                        ELSE groups
           /\ inserts' = IF est THEN [inserts EXCEPT ![t] = @ + 1] ELSE inserts
    /\ ConcStep(h, "notify")
    /\ UNCHANGED <<lock, hreq, hprev, hres, serial, devices, tasks,
                   subscribers>>

\* if let Ok(true) = update_result { self.send_updates(&task_id); }
Notify(h) ==
    /\ hpc[h] = "notify"
    /\ subscribers' = IF hres[h] = Ok(TRUE)
                      THEN send_updates(StateNow, hreq[h].task).s.subscribers
                      ELSE subscribers
    /\ ConcStep(h, "unlock")
    /\ UNCHANGED <<lock, hreq, hprev, hres, hsaw, serial, devices, groups,
                   tasks, inserts>>

\* The guard is dropped at the end of the statement (or by the unwinding).
Release(h) ==
    /\ hpc[h] = "unlock"
    /\ lock' = NoHolder
    /\ ConcStep(h, "done")
    /\ UNCHANGED <<hreq, hprev, hres, hsaw, serial, devices, groups, tasks,
                   subscribers, inserts>>

\* What get_info puts in its response for the tasks: identifier and state.
TasksOfInfo(s, device) ==
    {<<t, get_status(s.tasks[t])>> : t \in get_device_tasks(s, device)}

InfoStep(pc) ==
    /\ UNCHANGED <<protoVars, mainVars, stateVars, concVars, workVars,
                   commVars>>
    /\ info'.pc = pc

\* A GetDeviceInfo request arrives.
InfoRequest(device_id) ==
    /\ info.pc = "idle"
    /\ info' = [info EXCEPT !.pc = "groups", !.device = device_id]
    /\ InfoStep("groups")

\* let groups = self.state.lock().await.get_device_groups(&device_id)...;
\* the guard is dropped at the end of the statement.
InfoGroups ==
    /\ info.pc = "groups"
    /\ Mutex_available(lock)
    /\ info' = [info EXCEPT !.pc = "tasks",
                            !.groups = get_device_groups(StateNow, info.device)]
    /\ InfoStep("tasks")

\* let tasks = self.state.lock().await.get_device_tasks(&device_id)...;
InfoTasks ==
    /\ info.pc = "tasks"
    /\ Mutex_available(lock)
    /\ info' = [info EXCEPT !.pc = "done",
                            !.tasks = TasksOfInfo(StateNow, info.device)]
    /\ InfoStep("done")

NextInfo ==
    \/ \E d \in Ids : InfoRequest(d)
    \/ InfoGroups
    \/ InfoTasks

NextConc ==
    \/ \E h \in Handlers, t \in 1..2, d \in Ids : \E o \in OrdersOf(tasks, t) :
           Request(h, t, d, o)
    \/ \E h \in Handlers : Acquire(h)
    \/ \E h \in Handlers : ReadStatus(h)
    \/ \E h \in Handlers : TaskUpdate(h)
    \/ \E h \in Handlers : InsertGroup(h)
    \/ \E h \in Handlers : Notify(h)
    \/ \E h \in Handlers : Release(h)

----------------------------------------------------------------------------
(* src/main.rs: a SignTask on its own, as SignTask::new leaves it *)

WorkPayloads == Payloads \cup {NoData}

\* task.update(device_id, data)
SignTask_Update(device_id) ==
    LET u == SignTask_update(the_task, device_id)
    IN  /\ the_task' = u.task
        /\ submitted' = IF u.ret.tag = "Err" THEN submitted
                        ELSE submitted \cup {device_id}
        /\ the_call' = [op |-> "update", device |-> device_id, ret |-> u.ret]
        /\ UNCHANGED <<protoVars, mainVars, stateVars, concVars, commVars,
                       infoVars>>

\* task.get_work(device_id)
SignTask_GetWork(device_id) ==
    /\ the_call' = [op |-> "get_work", device |-> device_id,
                    ret |-> main_get_work(the_task, device_id)]
    /\ UNCHANGED <<the_task, submitted, protoVars, mainVars, stateVars,
                   concVars, commVars, infoVars>>

NextWork ==
    \/ \E d \in Ids : SignTask_Update(d)
    \/ \E d \in Ids : SignTask_GetWork(d)

----------------------------------------------------------------------------
(* The Task that drives a Protocol instance of src/protocols/musig2.rs
   through its Communicator *)

\* Communicator: the active devices and those whose message for the round
\* in progress is posted.
set_active_devices(devs) == [active |-> devs, posted |-> {}]

receive_message(c, device) == [c EXCEPT !.posted = @ \cup {device}]

\* A round is complete with the message of one device.
round_has_message(c) == c.posted # {}

\* A round is complete when every active device has posted its message.
round_complete(c) == c.posted = c.active

\* relay(): the posted messages become the other devices' input of the next
\* round.
relay(c) == [c EXCEPT !.posted = {}]

\* The Task is created: protocol.initialize(communicator, data).
StartProtocol(p, devs) ==
    /\ round[p] = 0
    /\ LET out == initialize(p, round[p])
       IN  /\ round' = [round EXCEPT ![p] = out.round]
           /\ relays' = relays
           /\ pcall' = [n |-> 1 - pcall.n, proto |-> p, op |-> "initialize",
                        before |-> round[p], broadcast |-> out.broadcast,
                        fault |-> out.fault]
    /\ comm' = [comm EXCEPT ![p] = set_active_devices(devs)]
    /\ contributed' = [contributed EXCEPT ![p] = <<{}>>]
    /\ UNCHANGED <<mainVars, stateVars, concVars, workVars, infoVars>>

\* Task::update(device, payload) of an active device: the message goes into
\* the round in progress; with the round complete the Protocol is advanced,
\* or finalized in its last round.
PostMessage(p, device) ==
    /\ round[p] \in 1..last_round(p)
    /\ device \in comm[p].active
    /\ LET c1 == receive_message(comm[p], device)
           taken == [contributed[p] EXCEPT ![round[p]] = @ \cup {device}]
           op == IF round[p] = last_round(p) THEN "finalize" ELSE "advance"
           out == IF op = "finalize" THEN finalize(p, round[p])
                  ELSE advance(p, round[p])
       IN  IF round_complete(c1)
           THEN /\ round' = [round EXCEPT ![p] = out.round]
                /\ relays' = [relays EXCEPT ![p] =
                                 @ + (IF out.relay THEN 1 ELSE 0)]
                /\ pcall' = [n |-> 1 - pcall.n, proto |-> p, op |-> op,
                             before |-> round[p], broadcast |-> out.broadcast,
                             fault |-> out.fault]
                /\ comm' = [comm EXCEPT ![p] = relay(c1)]
                /\ contributed' = [contributed EXCEPT ![p] =
                                      IF op = "advance" THEN Append(taken, {})
                                      ELSE taken]
           ELSE /\ comm' = [comm EXCEPT ![p] = c1]
                /\ contributed' = [contributed EXCEPT ![p] = taken]
                /\ UNCHANGED protoVars
    /\ UNCHANGED <<mainVars, stateVars, concVars, workVars, infoVars>>

NextRounds ==
    \/ \E p \in Protocols, devs \in SUBSET Ids \ {{}} : StartProtocol(p, devs)
    \/ \E p \in Protocols, d \in Ids : PostMessage(p, d)

NextProto ==
    \/ \E p \in Protocols : Initialize(p)
    \/ \E p \in Protocols : Advance(p)
    \/ \E p \in Protocols : Finalize(p)

InitProto ==
    /\ round = [p \in Protocols |-> 0]
    /\ relays = [p \in Protocols |-> 0]
    /\ pcall = [n |-> 0, proto |-> "Musig2Group", op |-> "new", before |-> 0,
                broadcast |-> FALSE, fault |-> FALSE]

InitMain ==
    /\ m_devices = <<>>
    /\ m_groups = <<>>
    /\ m_tasks = <<>>
    /\ m_ret = [n |-> 0, op |-> "new", args |-> <<>>, ret |-> Unit,
                resp |-> Success("")]

InitState ==
    /\ devices = <<>>
    /\ groups = <<>>
    /\ tasks = <<>>
    /\ subscribers = <<>>
    /\ last = [op |-> "new", ret |-> Unit, failed |-> {}]
    /\ dropped = {}
    /\ inserts = <<>>

InitConc ==
    /\ lock = NoHolder
    /\ hpc = [h \in Handlers |-> "idle"]
    /\ hreq = [h \in Handlers |-> NoRequest]
    /\ hprev = [h \in Handlers |-> "none"]
    /\ hres = [h \in Handlers |-> Unit]
    /\ hsaw = [h \in Handlers |-> FALSE]
    /\ serial = [s |-> StateNow, ret |-> [h \in Handlers |-> Unit]]

InitWork ==
    /\ the_task = SignTask_new({}, NoData)
    /\ submitted = {}
    /\ the_call = [op |-> "new", device |-> <<>>, ret |-> Unit]

InitComm ==
    /\ comm = [p \in Protocols |-> [active |-> {}, posted |-> {}]]
    /\ contributed = [p \in Protocols |-> <<>>]

InitInfo ==
    info = [pc |-> "idle", device |-> <<>>, groups |-> {}, tasks |-> {}]

Init == /\ InitProto /\ InitMain /\ InitState /\ InitConc
        /\ InitWork /\ InitComm /\ InitInfo

\* SignTask::new(devices, data)
InitSignTask ==
    /\ InitProto /\ InitMain /\ InitState /\ InitConc /\ InitComm /\ InitInfo
    /\ \E devs \in SUBSET Ids, data \in WorkPayloads :
          the_task = SignTask_new(devs, data)
    /\ submitted = {}
    /\ the_call = [op |-> "new", device |-> <<>>, ret |-> Unit]

SpecWork == InitSignTask /\ [][NextWork]_vars
SpecRounds == Init /\ [][NextRounds]_vars

SpecProto == Init /\ [][NextProto]_vars
SpecMain == Init /\ [][NextMain]_vars
Spec == Init /\ [][Next]_vars
SpecAck == Init /\ [][NextAck]_vars
SpecNotify == Init /\ [][NextNotify]_vars

\* The handlers start on a State in which the devices are registered, one
\* of them subscribed, and one group-formation task is open.
EmptyState == [devices |-> <<>>, groups |-> <<>>, tasks |-> <<>>,
               subscribers |-> <<>>]

RECURSIVE Registered(_, _)
Registered(s, ids) ==
    IF ids = {} THEN s
    ELSE LET d == CHOOSE x \in ids : TRUE
         IN  Registered(add_device(s, d, <<Alpha>>).s, ids \ {d})

InitHandlers ==
    /\ InitProto /\ InitMain
    /\ \E l \in DeviceLists :
          LET s0 == add_subscriber(Registered(EmptyState, Ids), l[1]).s
              s1 == add_group_task(s0, <<Alpha>>, l, Len(l)).s
          IN  /\ devices = s1.devices
              /\ groups = s1.groups
              /\ tasks = s1.tasks
              /\ subscribers = s1.subscribers
    /\ last = [op |-> "add_group_task", ret |-> Some(1), failed |-> {}]
    /\ dropped = {}
    /\ inserts = <<0>>
    /\ InitConc
    /\ InitWork /\ InitComm /\ InitInfo

SpecConc == InitHandlers /\ [][NextConc]_vars

\* get_info next to the handlers of update_task.
SpecInfo == InitHandlers /\ [][NextConc \/ NextInfo]_vars

----------------------------------------------------------------------------
(* Claims settled on src/main.rs, src/rpc.rs and src/protocols/musig2.rs *)

m_submitted(task) == \A d \in DOMAIN task.subtasks : task.subtasks[d]

\* C2: once every device of a group-formation task has submitted through
\* update_task, the task's status is GroupEstablished with a Group of the
\* task's threshold and exactly its devices, that Group is in State's groups,
\* and no update by a participant faulted on the way.
C2_AllSubmittedEstablishes ==
    /\ \A t \in DOMAIN m_tasks :
          (m_tasks[t].kind = "Group" /\ m_submitted(m_tasks[t])) =>
             LET st == main_get_status(m_tasks[t])
             IN  /\ st.tag = "GroupEstablished"
                 /\ st.group.threshold = m_tasks[t].threshold
                 /\ st.group.devices = DOMAIN m_tasks[t].subtasks
                 /\ st.group \in Range(m_groups)
    /\ (/\ m_ret.op = "update_task"
        /\ m_ret.args[1] \in DOMAIN m_tasks
        /\ m_ret.args[2] \in DOMAIN m_tasks[m_ret.args[1]].subtasks)
          => m_ret.resp # Fault

\* C3: while a participant's contribution is outstanding, the task's status
\* is Waiting with exactly the participants that have not contributed, and
\* never Signed / GroupEstablished.
C3_WaitingWhileOutstanding ==
    \A t \in DOMAIN m_tasks :
       WaitingOf(m_tasks[t]) # {} =>
          main_get_status(m_tasks[t]) = Waiting(WaitingOf(m_tasks[t]))

\* C4: update_task by a device that is no participant of the task gives the
\* caller a failure value, does not fault, and leaves the tasks and the
\* groups as they were.
C4_UnknownDeviceIsReported ==
    [][(/\ m_ret'.n # m_ret.n
        /\ m_ret'.op = "update_task"
        /\ m_ret'.args[1] \in DOMAIN m_tasks
        /\ m_ret'.args[2] \notin DOMAIN m_tasks[m_ret'.args[1]].subtasks)
         => (/\ m_ret'.ret.tag = "Err"
             /\ m_ret'.resp # Fault
             /\ UNCHANGED <<m_tasks, m_groups, m_devices>>)]_vars

\* C5: a registration with an identifier that is already registered is
\* rejected, the caller is told so, and the registry stays as it was.
C5_DuplicateRegistrationRejected ==
    [][(/\ m_ret'.n # m_ret.n
        /\ m_ret'.op = "register"
        /\ m_ret'.args[1] \in DOMAIN m_devices)
         => (/\ m_ret'.resp.variant # "Success"
             /\ m_devices' = m_devices)]_vars

\* C6: a Protocol call that does not fault leaves round one above the round
\* it found, and finalize goes through only at round = last_round.
C6_RoundStepsByOne ==
    [][(pcall'.n # pcall.n /\ ~pcall'.fault)
         => (/\ round'[pcall'.proto] = round[pcall'.proto] + 1
             /\ (pcall'.op = "finalize"
                   => round[pcall'.proto] = last_round(pcall'.proto)))]_vars

----------------------------------------------------------------------------
(* Claims settled on src/state.rs *)

StatusIn(ts, t) == IF t \in DOMAIN ts THEN get_status(ts[t]) ELSE "none"

\* C1: a group-formation task turns Finished at most once; update_task
\* inserts a Group for it exactly once, in the step in which it turns
\* Finished and in no other; the Group inserted has exactly the task's
\* devices as members.
C1_GroupInsertedOnceAtFinish ==
    /\ [](\A t \in DOMAIN tasks :
            /\ inserts[t] <= 1
            /\ tasks[t].kind = "Group" =>
                  (inserts[t] = 1 <=> get_status(tasks[t]) = "Finished"))
    /\ [][\A t \in DOMAIN tasks' :
            LET flips == /\ StatusIn(tasks, t) # "Finished"
                         /\ get_status(tasks'[t]) = "Finished"
                before == IF t \in DOMAIN inserts THEN inserts[t] ELSE 0
            IN  /\ StatusIn(tasks, t) = "Finished"
                     => get_status(tasks'[t]) = "Finished"
                /\ inserts'[t] = before +
                     (IF flips /\ tasks'[t].kind = "Group" THEN 1 ELSE 0)
                /\ (flips /\ tasks'[t].kind = "Group") =>
                     \E id \in DOMAIN groups' :
                        /\ groups'[id] = Unwrap(tasks'[t].result)
                        /\ groups'[id].devices = get_devices(tasks'[t])]_vars

\* A task is Finished with its Group inserted once, and the last operation
\* was one more update by a device of a task that was Finished already.
C1_Witness ==
    /\ tasks # <<>>
    /\ \A t \in DOMAIN tasks :
          /\ tasks[t].kind = "Group"
          /\ get_status(tasks[t]) = "Finished"
          /\ inserts[t] = 1
    /\ last.op = "update_task"
    /\ last.ret = Ok(FALSE)

\* C9: a Group that is in State's groups stays there with the same
\* threshold and the same members, whatever happens next.
C9_StoredGroupNeverChanges ==
    [][\A id \in DOMAIN groups :
          id \in DOMAIN groups' /\ groups'[id] = groups[id]]_vars

TerminalTask(task) == get_status(task) \in {"Finished", "Failed"}

WithRoom(s) ==
    [s EXCEPT !.subscribers = [d \in DOMAIN s.subscribers |-> Channel_new]]

\* real: an operation's outcome on the State as it is; ideal: its outcome
\* on the State with room in every channel.
UnhurtByFailedPush(real, ideal) ==
    /\ real.ret = ideal.ret
    /\ real.s.tasks = ideal.s.tasks
    /\ real.s.groups = ideal.s.groups
    /\ real.s.devices = ideal.s.devices
    /\ real.inserted = ideal.inserted
    /\ real.attempted = ideal.attempted
    /\ ideal.failed = {}
    /\ real.failed = {d \in real.attempted : try_send_fails(subscribers[d])}
    /\ DOMAIN real.s.subscribers = DOMAIN subscribers \ real.failed
    /\ real.attempted \cap dropped = {}

\* C7: when a push of send_updates fails, the operation that called it
\* (update_task, decide_task, add_group_task, add_sign_task) ends with the
\* result and the tasks and groups it would have had with the push
\* delivered, the subscriber is gone from the subscribers when the operation
\* ends, and no later operation pushes to it unless it subscribed again.
C7_FailedPushDropsSubscriberOnly ==
    /\ dropped \cap DOMAIN subscribers = {}
    /\ last.failed \subseteq dropped
    /\ \A t \in DOMAIN tasks, d \in PairIds :
          /\ \A o \in OrdersOf(tasks, t) :
                UnhurtByFailedPush(update_task(StateNow, t, d, o),
                                   update_task(WithRoom(StateNow), t, d, o))
          /\ \A b \in BOOLEAN :
                UnhurtByFailedPush(decide_task(StateNow, t, d, b),
                                   decide_task(WithRoom(StateNow), t, d, b))
    /\ \A l \in PairLists :
          UnhurtByFailedPush(
              add_group_task(StateNow, <<Alpha>>, l, Len(l)),
              add_group_task(WithRoom(StateNow), <<Alpha>>, l, Len(l)))
    /\ \A g \in GroupIds :
          UnhurtByFailedPush(
              add_sign_task(StateNow, g, <<Alpha>>, [len |-> 5]),
              add_sign_task(WithRoom(StateNow), g, <<Alpha>>, [len |-> 5]))

\* An update has just gone through with Ok(true) although the push to a
\* subscribed device of the task failed; that device is subscribed no more.
C7_Witness ==
    /\ last.op = "update_task"
    /\ last.ret = Ok(TRUE)
    /\ last.failed # {}
    /\ last.failed \cap DOMAIN subscribers = {}

InCriticalSection(h) ==
    hpc[h] \in {"status", "update", "insert", "notify", "unlock"}

\* C8: handlers that call update_task at once run it one after the other:
\* at most one is inside at a time, whenever the lock is free the State and
\* every finished call's result are those of the same calls run whole in
\* the order they took the lock, and at most one call sees the task turn
\* Finished and inserts its Group.
C8_UpdatesAreSerial ==
    /\ Cardinality({h \in Handlers : InCriticalSection(h)}) <= 1
    /\ \A h \in Handlers : InCriticalSection(h) => lock = h
    /\ Cardinality({h \in Handlers : hsaw[h]}) <= 1
    /\ \A t \in DOMAIN inserts : inserts[t] <= 1
    /\ lock = NoHolder =>
          /\ StateNow = serial.s
          /\ \A h \in Handlers : hpc[h] = "done" => hres[h] = serial.ret[h]

\* Two handlers have updated the same task for different devices, and one
\* of them saw it turn Finished.
C8_Witness ==
    \E h1, h2 \in Handlers :
       /\ hpc[h1] = "done" /\ hpc[h2] = "done"
       /\ hreq[h1].task = hreq[h2].task
       /\ hreq[h1].device # hreq[h2].device
       /\ hres[h1] = Ok(TRUE) /\ hres[h2] = Ok(TRUE)
       /\ hsaw[h1] /\ ~hsaw[h2]
       /\ inserts[hreq[h1].task] = 1

----------------------------------------------------------------------------
(* Claims settled on the contracts of the operations *)

\* What the devices can see of a State: every task's status and every
\* device's pending-task listing.
Listing(s) ==
    [statuses |-> [t \in DOMAIN s.tasks |-> get_status(s.tasks[t])],
     pending |-> [d \in PairIds |-> get_device_tasks(s, d)]]

\* C11: acknowledge_task(task, device) called twice in a row leaves the
\* State that one call leaves: the same tasks with the same statuses, the
\* same pending-task listing of every device, the same groups, devices and
\* subscribers; a device that has acknowledged changes nothing by
\* acknowledging again.
C11_AcknowledgeIsIdempotent ==
    \A t \in DOMAIN tasks, d \in PairIds :
       LET once == acknowledge_task(StateNow, t, d)
           twice == acknowledge_task(once.s, t, d)
       IN  /\ twice.s = once.s
           /\ twice.ret = once.ret
           /\ Listing(twice.s) = Listing(once.s)
           /\ device_acknowledged(tasks[t], d) => once.s = StateNow

\* A device has acknowledged a Finished task, which is out of its listing,
\* and the last operation was an acknowledge_task.
C11_Witness ==
    /\ last.op = "acknowledge_task"
    /\ \E t \in DOMAIN tasks : \E d \in get_devices(tasks[t]) :
          /\ get_status(tasks[t]) = "Finished"
          /\ device_acknowledged(tasks[t], d)
          /\ t \notin get_device_tasks(StateNow, d)
          /\ Cardinality(get_devices(tasks[t])) = 2

\* C12: get_work(device) on a signing task gives a payload only when the
\* device is a participant whose contribution update has taken; for a
\* participant that has not posted and for a device that is no participant
\* it gives nothing.
C12_WorkOnlyAfterPosting ==
    /\ the_task.kind = "Sign"
    /\ \A d \in Ids :
          LET work == main_get_work(the_task, d)
          IN  /\ work # None => (d \in submitted /\ d \in DOMAIN the_task.subtasks)
              /\ d \notin submitted => work = None
              /\ d \notin DOMAIN the_task.subtasks => work = None
    /\ the_call.op = "get_work" =>
          /\ the_call.ret # None => the_call.device \in submitted
          /\ the_call.device \notin submitted => the_call.ret = None

\* get_work has just given its payload to a device that posted, while
\* another participant of the task has not posted and a third device is no
\* participant.
C12_Witness ==
    /\ the_call.op = "get_work"
    /\ the_call.ret = Some(the_task.data)
    /\ the_call.device \in submitted
    /\ \E d \in DOMAIN the_task.subtasks :
          d \notin submitted /\ main_get_work(the_task, d) = None
    /\ \E d \in Ids : d \notin DOMAIN the_task.subtasks

\* C13: a group-formation request whose threshold is above the number of
\* listed devices is rejected with a value (no fault), no task is created,
\* nothing is pushed, and devices, groups and subscribers stay as they were.
C13_BadThresholdIsRejected ==
    \A n \in GroupNames, l \in DeviceLists, thr \in Thresholds :
       thr > Len(l) =>
          LET out == add_group_task(StateNow, n, l, thr)
          IN  /\ ~out.fault
              /\ out.s = StateNow
              /\ out.attempted = {}

\* C14: a signing request that names a group that is not stored, and a
\* group-formation request that names a device that is not registered, get
\* a failure answer (no fault), and leave devices, groups and tasks as they
\* were.
C14_UnknownReferenceIsRejected ==
    [][/\ (/\ m_ret'.n # m_ret.n
           /\ m_ret'.op = "sign"
           /\ m_ret'.args[1] \notin DOMAIN m_groups)
            => (/\ m_ret'.resp.variant = "Failure"
                /\ UNCHANGED <<m_devices, m_groups, m_tasks>>)
       /\ (/\ m_ret'.n # m_ret.n
           /\ m_ret'.op = "group"
           /\ \E i \in DOMAIN m_ret'.args[1] :
                 m_ret'.args[1][i] \notin DOMAIN m_devices)
            => (/\ m_ret'.resp.variant = "Failure"
                /\ UNCHANGED <<m_devices, m_groups, m_tasks>>)]_vars

\* C15: initialize called at a round >= 1 faults: it leaves round where it
\* was and broadcasts no init payloads.
C15_InitializeOnlyAtRoundZero ==
    [][(/\ pcall'.n # pcall.n
        /\ pcall'.op = "initialize"
        /\ round[pcall'.proto] >= 1)
         => (/\ pcall'.fault
             /\ ~pcall'.broadcast
             /\ round' = round)]_vars

\* C16: advance called outside 0 < round < last_round (at round 0, at
\* last_round, past last_round) faults: no relay, no round increment.
C16_AdvanceOnlyInsideWindow ==
    [][(/\ pcall'.n # pcall.n
        /\ pcall'.op = "advance"
        /\ ~(0 < round[pcall'.proto]
               /\ round[pcall'.proto] < last_round(pcall'.proto)))
         => (/\ pcall'.fault
             /\ relays' = relays
             /\ round' = round)]_vars

RelaysUpTo(p, r) == IF r = 0 THEN 0
                    ELSE IF r <= last_round(p) THEN r - 1
                    ELSE last_round(p) - 1

\* C17: the round of a task's Protocol goes from N to N + 1, and the
\* messages of round N are relayed as the input of round N + 1, only once
\* every active device has posted its round-N message: every round behind
\* the current one was posted to by all active devices, there were as many
\* relays as completed rounds, and within a round the devices that posted
\* are short of the active set.
C17_RoundNeedsEveryActiveDevice ==
    /\ [](\A p \in Protocols :
            /\ \A n \in DOMAIN contributed[p] :
                  /\ contributed[p][n] \subseteq comm[p].active
                  /\ n < round[p] => contributed[p][n] = comm[p].active
            /\ round[p] >= 1 => round[p] - 1 <= Len(contributed[p])
            /\ relays[p] = RelaysUpTo(p, round[p])
            /\ round[p] \in 1..last_round(p) =>
                  /\ comm[p].posted = contributed[p][round[p]]
                  /\ comm[p].posted # comm[p].active)
    /\ [][\A p \in Protocols :
            (round[p] >= 1 /\ round'[p] # round[p]) =>
               /\ round'[p] = round[p] + 1
               /\ contributed'[p][round[p]] = comm[p].active]_vars

\* A signing Protocol over three active devices stands in its last round
\* with the messages of two of them posted.
C17_Witness ==
    /\ round["Musig2Sign"] = last_round("Musig2Sign")
    /\ Cardinality(comm["Musig2Sign"].active) = 3
    /\ Cardinality(comm["Musig2Sign"].posted) = 2
    /\ relays["Musig2Sign"] = 2

\* The subscribers after one push to each device of pushed_to and to nobody
\* else: a channel with room holds one push more, a subscriber whose push
\* failed is gone, every other channel is as it was.
OnePushEach(before, after, pushed_to) ==
    /\ DOMAIN after =
          DOMAIN before \ {e \in pushed_to : try_send_fails(before[e])}
    /\ \A e \in DOMAIN after :
          after[e] = IF e \in pushed_to
                     THEN [before[e] EXCEPT !.queued = @ + 1]
                     ELSE before[e]

\* C18: send_updates(task) tries one push to every device that is a
\* participant of the task and subscribed, and none to any other
\* subscriber; update_task calls it when the task's update gave Ok(true),
\* and not when it gave Ok(false) or an error.
C18_PushToSubscribedParticipants ==
    \A t \in DOMAIN tasks :
       LET targets == get_devices(tasks[t]) \cap DOMAIN subscribers
           sent == send_updates(StateNow, t)
       IN  /\ sent.attempted = targets
           /\ OnePushEach(subscribers, sent.s.subscribers, targets)
           /\ \A d \in PairIds : \A o \in OrdersOf(tasks, t) :
                 LET out == update_task(StateNow, t, d, o)
                 IN  IF out.ret = Ok(TRUE)
                     THEN /\ out.attempted = targets
                          /\ OnePushEach(subscribers, out.s.subscribers,
                                         targets)
                     ELSE /\ out.attempted = {}
                          /\ out.s.subscribers = subscribers

\* An update has just been pushed to the task's only device, whose channel
\* holds it, while the other subscriber, no participant, got nothing.
C18_Witness ==
    /\ last.op = "update_task"
    /\ last.ret = Ok(TRUE)
    /\ last.failed = {}
    /\ Len(tasks) = 1
    /\ get_devices(tasks[1]) = {<<1>>}
    /\ DOMAIN subscribers = PairIds
    /\ subscribers[<<1>>].queued = 1
    /\ subscribers[<<2>>].queued = 0

\* C19: update_task, decide_task, acknowledge_task, get_task and get_work
\* called with the identifier of a task that does not exist give the caller
\* an error or empty value, do not fault, and leave State as it was.
C19_UnknownTaskIsReported ==
    /\ \A t \in (1..(MaxTasks + 1)) \ DOMAIN tasks : \A d \in Ids :
          /\ ~update_task(StateNow, t, d, <<>>).fault
          /\ update_task(StateNow, t, d, <<>>).s = StateNow
          /\ \A b \in BOOLEAN :
                /\ ~decide_task(StateNow, t, d, b).fault
                /\ decide_task(StateNow, t, d, b).s = StateNow
          /\ ~acknowledge_task(StateNow, t, d).fault
          /\ acknowledge_task(StateNow, t, d).s = StateNow
          /\ restart_task(StateNow, t).ret = Bool(FALSE)
    /\ \A t \in (1..(MaxTasks + 1)) \ DOMAIN m_tasks : \A d \in Ids :
          /\ main_get_task(MainState, t) # Panic
          /\ ~main_state_get_work(MainState, t, d).fault
          /\ main_update_task(MainState, t, d, <<>>).ret # Panic

\* C20: the groups and the tasks of one get_info response are those of one
\* State: when the tasks are read, the groups read before are still the
\* device's groups, and every group-formation task of the device is in the
\* response either as a Waiting task or with its Group among the groups.
C20_InfoReadsOneState ==
    [][(info.pc = "tasks" /\ info'.pc = "done") =>
          /\ info'.groups = get_device_groups(StateNow, info.device)
          /\ \A t \in DOMAIN tasks :
                (tasks[t].kind = "Group" /\ has_device(tasks[t], info.device))
                   => \/ <<t, "Waiting">> \in info'.tasks
                      \/ \E g \in info'.groups :
                            g.devices = get_devices(tasks[t])]_vars

----------------------------------------------------------------------------
(* Claims settled on the Groups that group-formation tasks synthesize *)

\* The Groups that the Finished group-formation tasks carry as result.
EstablishedGroups ==
    {Unwrap(tasks[t].result) :
        t \in {u \in DOMAIN tasks :
                  tasks[u].kind = "Group" /\ tasks[u].result # None}}

\* C21: the identifier of a Group identifies its member set: Groups of
\* completed group-formation tasks over different device sets have
\* different identifiers, Groups over the same device set have the same
\* identifier whatever the order the map yields its keys in, and the Group
\* stored under an identifier has the members of every Group established
\* with that identifier.
C21_IdentifierIdentifiesMembers ==
    /\ \A g1, g2 \in EstablishedGroups :
          (g1.devices = g2.devices) <=> (g1.identifier = g2.identifier)
    /\ \A g \in EstablishedGroups :
          /\ g.identifier \in DOMAIN groups
          /\ groups[g.identifier].devices = g.devices

\* The Groups that the group-formation tasks of main.rs hold as result.
m_SynthesizedGroups ==
    {Unwrap(m_tasks[t].result) :
        t \in {u \in DOMAIN m_tasks :
                  m_tasks[u].kind = "Group" /\ m_tasks[u].result # None}}

\* C22: every Group a group-formation task synthesizes has a threshold of
\* at most the number of its distinct member devices, also when the
\* accepted request listed a registered device more than once.
C22_ThresholdWithinMembers ==
    \A g \in m_SynthesizedGroups : g.threshold <= Cardinality(g.devices)

====
